---- MODULE Spec2Model ----
(***************************************************************************)
(* Model of react-bidirectional-list: the useThrottle hook and the         *)
(* BidirectionalList component (scroll-anchor recording and restoration).  *)
(*                                                                         *)
(* Times are clock readings of Date.now() in milliseconds.  The viewport   *)
(* is the DOM element behind viewportRef, modelled as a passive store of   *)
(* its four scroll properties: a write to scrollLeft/scrollTop stores the  *)
(* assigned value.                                                         *)
(***************************************************************************)
EXTENDS Integers, FiniteSets, Sequences, TLC

VARIABLES
    \* props of BidirectionalList, re-supplied on every render
    direction, hasMoreAtHead, hasMoreAtTail, throttleDelay, disableLog,
    \* hook state of BidirectionalList
    directionMemo, viewportAttached, action,
    scrollWidthRef, scrollHeightRef, scrollLeftRef, scrollTopRef,
    lastCallRef,
    \* host: the clock and the viewport element
    now, viewport,
    \* what the last step did to the outside: callback invoked, console
    \* output, write of the scroll offset
    effect,
    \* a single useThrottle instance wrapping an arbitrary callback
    gLastCallRef, gDelay, gCallback,
    \* its history: clock readings of the attempts and of the forwarded ones,
    \* whether the last attempt called the callback and what it returned,
    \* whether the hook was rendered with new arguments since
    \* since the attempt before the last one (gAfterRewrap) or since the
    \* last one (gRewrapped)
    gAttemptedAt, gForwardedAt, gInvoked, gReturned, gAfterRewrap, gRewrapped,
    \* history of the list: the direction prop at construction; the edge and
    \* the viewport of the last edge-fire that entered a pending action, with
    \* the action that was pending then; the clock reading of the last
    \* invocation of onHead and of onTail (0: never)
    original, fired, invokedAt,
    \* the Observer of each edge: whether its sentinel intersects the
    \* viewport, what its IntersectionObserver reported last, and whether
    \* the sentinel was out of view since its last forwarded notification
    visible, observed, calm,
    \* TestList: its props and its data (the ids of the items)
    batchSize, idMin, idMax, data

propVars == <<direction, hasMoreAtHead, hasMoreAtTail, throttleDelay, disableLog>>
refVars  == <<scrollWidthRef, scrollHeightRef, scrollLeftRef, scrollTopRef>>
listVars == <<directionMemo, viewportAttached, action, refVars, lastCallRef>>
gateVars == <<gLastCallRef, gDelay, gCallback, gAttemptedAt, gForwardedAt,
              gInvoked, gReturned, gAfterRewrap, gRewrapped>>
histVars == <<original, fired, invokedAt>>
obsVars  == <<visible, observed, calm>>
testVars == <<batchSize, idMin, idMax, data>>
vars     == <<propVars, listVars, now, viewport, effect, gateVars, histVars,
              obsVars, testVars>>

----------------------------------------------------------------------------
\* default value of the delay parameter of useThrottle
DefaultDelay == 1000
\* default value of the batchSize prop of TestList
DefaultBatchSize == 10
\* listItemMainSize of a row, in vw
ItemMainSize == 25

----------------------------------------------------------------------------
(* Bounds of the model *)

\* clock reading when the component is constructed
StartNow == 2000
\* last clock reading explored
MaxNow == 3000
\* largest scroll offset explored
MaxOffset == 600
\* attempts made on the single gate
MaxAttempts == 3
\* the most items TestList holds
MaxItems == 8
\* batchSize props of TestList
BatchSizes == {2, 3}
\* idMin and idMax props of TestList
IdMins == {-3, -4}
IdMaxs == {3, 4}

\* clock advances between two events of the list
Steps == {500}
\* clock advances between two events of the single gate
GateSteps == {400, 600}
\* cooldowns the single gate is wrapped with: none, shorter than a clock
\* advance, the default, and one above every clock reading (lastCallRef
\* starts at 0 and Date.now() counts from the epoch)
Delays == {0, 400, DefaultDelay, 5000}
\* scroll extents of the content along the main axis
Extents == {1000, 1400}
\* values the direction prop is changed to after construction
DirectionProps == {"row", "column-reverse"}
\* offsets the user scrolls to
ScrollOffsets == {200, 600}
\* extent and offset of the axis the list does not scroll along
CrossExtent == 120
CrossOffset == 7

----------------------------------------------------------------------------
(* Values *)

Directions == {"row", "row-reverse", "column", "column-reverse"}
\* values of the direction prop that the type FlexDirection excludes and an
\* untyped caller can pass
Unrecognized == {"inherit", "column-wrap"}
Edges == {"head", "tail"}
Undefined == "undefined"

\* what a callback wrapped by the single gate returns
CallbackResults == {Undefined, "result"}

----------------------------------------------------------------------------
(* useThrottle *)

\* useThrottle with a fault: a suppressed invocation hands back the result
\* of the callback although the callback is not called
useThrottle_ResultWhenSuppressed(lastCall, delay, t, result) ==
    IF t - lastCall >= delay
    THEN [lastCallRef |-> t, invoked |-> TRUE, returned |-> result]
    ELSE [lastCallRef |-> lastCall, invoked |-> FALSE, returned |-> result]

\* One invocation of the memoized function at clock reading t: the new value
\* of lastCallRef, whether the callback is called, and the value returned.
useThrottle(lastCall, delay, t, result) ==
    IF t - lastCall >= delay
    THEN [lastCallRef |-> t, invoked |-> TRUE, returned |-> result]
    ELSE [lastCallRef |-> lastCall, invoked |-> FALSE, returned |-> Undefined]

\* useRef with a fault: the timestamp is re-initialized by every render
useRef_Reinitialized(current, initial) == initial

\* useRef(0): the object kept across renders, not re-initialized
useRef(current, initial) == current

\* The memoized function is invoked.
GateAttempt ==
    /\ Len(gAttemptedAt) < MaxAttempts
    /\ LET r == useThrottle(gLastCallRef, gDelay, now, gCallback)
       IN /\ gLastCallRef' = r.lastCallRef
          /\ gInvoked' = r.invoked
          /\ gReturned' = r.returned
          /\ gForwardedAt' = IF r.invoked THEN Append(gForwardedAt, now)
                                          ELSE gForwardedAt
    /\ gAttemptedAt' = Append(gAttemptedAt, now)
    /\ gAfterRewrap' = gRewrapped
    /\ gRewrapped' = FALSE
    /\ UNCHANGED <<propVars, listVars, now, viewport, effect, histVars, gDelay,
                   gCallback, obsVars, testVars>>

\* A render calls the hook with another callback or delay.
GateRewrap(callback, delay) ==
    /\ <<callback, delay>> # <<gCallback, gDelay>>
    /\ gCallback' = callback
    /\ gDelay' = delay
    /\ gLastCallRef' = useRef(gLastCallRef, 0)
    /\ gRewrapped' = TRUE
    /\ UNCHANGED <<propVars, listVars, now, viewport, effect, histVars,
                   gAttemptedAt, gForwardedAt, gInvoked, gReturned, gAfterRewrap,
                   obsVars, testVars>>

\* Date.now() advances between two invocations
GateTick ==
    /\ \E s \in GateSteps : now + s <= MaxNow /\ now' = now + s
    /\ UNCHANGED <<propVars, listVars, viewport, effect, gateVars, histVars, obsVars, testVars>>

----------------------------------------------------------------------------
(* BidirectionalList *)

\* directionMemo.includes('column')
IsColumn(dir) == dir \in {"column", "column-reverse", "column-wrap"}

\* useMemo with a fault: the direction is recomputed when the prop changes
MemoizedDirection_Recomputed(memo, dir) == dir

\* useMemo(() => direction, []): the value kept across renders
MemoizedDirection(memo, dir) == memo

isColumn == IsColumn(directionMemo)

\* the handlers with a fault: each reads the flag of the other edge
hasMore_Swapped(edge) == IF edge = "head" THEN hasMoreAtTail ELSE hasMoreAtHead

\* the flag read by onHeadThrottled / onTailThrottled
hasMore(edge) == IF edge = "head" THEN hasMoreAtHead ELSE hasMoreAtTail

\* name of the callback prop of an edge
Callback(edge) == IF edge = "head" THEN "onHead" ELSE "onTail"

\* the switch with a fault: the growing side subtracts the growth
RestoreScroll_Subtracts(dir, isHead, diff, vp) ==
    CASE dir = "row" ->
           IF isHead THEN [vp EXCEPT !.scrollLeft = scrollLeftRef - diff]
                     ELSE [vp EXCEPT !.scrollLeft = scrollLeftRef]
      [] dir = "row-reverse" ->
           IF isHead THEN [vp EXCEPT !.scrollLeft = scrollLeftRef]
                     ELSE [vp EXCEPT !.scrollLeft = scrollLeftRef - diff]
      [] dir = "column" ->
           IF isHead THEN [vp EXCEPT !.scrollTop = scrollTopRef - diff]
                     ELSE [vp EXCEPT !.scrollTop = scrollTopRef]
      [] dir = "column-reverse" ->
           IF isHead THEN [vp EXCEPT !.scrollTop = scrollTopRef]
                     ELSE [vp EXCEPT !.scrollTop = scrollTopRef - diff]
      [] OTHER -> vp

\* the switch with a fault: the other side is left alone instead of being
\* set to the recorded offset
RestoreScroll_SkipsOtherSide(dir, isHead, diff, vp) ==
    CASE dir = "row" ->
           IF isHead THEN [vp EXCEPT !.scrollLeft = scrollLeftRef + diff]
                     ELSE vp
      [] dir = "row-reverse" ->
           IF isHead THEN vp
                     ELSE [vp EXCEPT !.scrollLeft = scrollLeftRef + diff]
      [] dir = "column" ->
           IF isHead THEN [vp EXCEPT !.scrollTop = scrollTopRef + diff]
                     ELSE vp
      [] dir = "column-reverse" ->
           IF isHead THEN vp
                     ELSE [vp EXCEPT !.scrollTop = scrollTopRef + diff]
      [] OTHER -> vp

\* the switch with a fault: the default case corrects as a row does
RestoreScroll_DefaultCorrects(dir, isHead, diff, vp) ==
    CASE dir = "row-reverse" ->
           IF isHead THEN [vp EXCEPT !.scrollLeft = scrollLeftRef]
                     ELSE [vp EXCEPT !.scrollLeft = scrollLeftRef + diff]
      [] dir = "column" ->
           IF isHead THEN [vp EXCEPT !.scrollTop = scrollTopRef + diff]
                     ELSE [vp EXCEPT !.scrollTop = scrollTopRef]
      [] dir = "column-reverse" ->
           IF isHead THEN [vp EXCEPT !.scrollTop = scrollTopRef]
                     ELSE [vp EXCEPT !.scrollTop = scrollTopRef + diff]
      [] OTHER ->
           IF isHead THEN [vp EXCEPT !.scrollLeft = scrollLeftRef + diff]
                     ELSE [vp EXCEPT !.scrollLeft = scrollLeftRef]

\* the switch on directionMemo: the viewport after the assignment of the
\* restored offset, or the viewport as it is when no case matches
RestoreScroll(dir, isHead, diff, vp) ==
    CASE dir = "row" ->
           IF isHead THEN [vp EXCEPT !.scrollLeft = scrollLeftRef + diff]
                     ELSE [vp EXCEPT !.scrollLeft = scrollLeftRef]
      [] dir = "row-reverse" ->
           IF isHead THEN [vp EXCEPT !.scrollLeft = scrollLeftRef]
                     ELSE [vp EXCEPT !.scrollLeft = scrollLeftRef + diff]
      [] dir = "column" ->
           IF isHead THEN [vp EXCEPT !.scrollTop = scrollTopRef + diff]
                     ELSE [vp EXCEPT !.scrollTop = scrollTopRef]
      [] dir = "column-reverse" ->
           IF isHead THEN [vp EXCEPT !.scrollTop = scrollTopRef]
                     ELSE [vp EXCEPT !.scrollTop = scrollTopRef + diff]
      [] OTHER -> vp

\* scrollHeight or scrollWidth of the live viewport minus the recorded one
ExtentDiff(vp) ==
    IF isColumn THEN vp.scrollHeight - scrollHeightRef
                ELSE vp.scrollWidth - scrollWidthRef

\* saveScrollStates with a fault: a recording made while an action is
\* pending is dropped
saveScrollStates_KeepsFirst(pending) ==
    IF viewportAttached /\ action = "none"
    THEN /\ IF isColumn
            THEN /\ scrollHeightRef' = viewport.scrollHeight
                 /\ scrollTopRef' = viewport.scrollTop
                 /\ UNCHANGED <<scrollWidthRef, scrollLeftRef>>
            ELSE /\ scrollWidthRef' = viewport.scrollWidth
                 /\ scrollLeftRef' = viewport.scrollLeft
                 /\ UNCHANGED <<scrollHeightRef, scrollTopRef>>
         /\ action' = pending
    ELSE UNCHANGED <<refVars, action>>

\* saveScrollStates with a fault: both axes are recorded
saveScrollStates_BothAxes(pending) ==
    IF viewportAttached
    THEN /\ scrollHeightRef' = viewport.scrollHeight
         /\ scrollTopRef' = viewport.scrollTop
         /\ scrollWidthRef' = viewport.scrollWidth
         /\ scrollLeftRef' = viewport.scrollLeft
         /\ action' = pending
    ELSE UNCHANGED <<refVars, action>>

\* saveScrollStates(pending)
saveScrollStates(pending) ==
    IF viewportAttached
    THEN /\ IF isColumn
            THEN /\ scrollHeightRef' = viewport.scrollHeight
                 /\ scrollTopRef' = viewport.scrollTop
                 /\ UNCHANGED <<scrollWidthRef, scrollLeftRef>>
            ELSE /\ scrollWidthRef' = viewport.scrollWidth
                 /\ scrollLeftRef' = viewport.scrollLeft
                 /\ UNCHANGED <<scrollHeightRef, scrollTopRef>>
         /\ action' = pending
    ELSE UNCHANGED <<refVars, action>>

\* the handlers with a fault: both go through the useThrottle of the head
GateOf_Shared(edge) == IF edge \in Edges THEN "head" ELSE edge

\* the useThrottle instance (its lastCallRef) behind the handler of an edge
GateOf(edge) == edge

\* the render with a fault: the Observer of a pending edge stays rendered
ObserverRendered_Always(edge) == edge \in Edges

\* the render with a fault: any pending action replaces both Observers
ObserverRendered_WhileIdle(edge) == edge \in Edges /\ action = "none"

\* The Observer of an edge is rendered unless the action of that edge is
\* pending: the loader takes its place then.
ObserverRendered(edge) == action # edge

\* the handler with a fault: the hasMore check in front of the gate
onIntersect_FlagBeforeGate(edge) ==
    /\ LET r == useThrottle(lastCallRef[GateOf(edge)], throttleDelay, now,
                            Undefined)
       IN IF hasMore(edge)
          THEN /\ lastCallRef' = [lastCallRef EXCEPT
                                    ![GateOf(edge)] = r.lastCallRef]
               /\ IF r.invoked
                  THEN /\ saveScrollStates(edge)
                       /\ effect' = Callback(edge)
                       /\ invokedAt' = [invokedAt EXCEPT ![edge] = now]
                       /\ fired' = IF action' # action
                                   THEN [edge |-> edge, viewport |-> viewport,
                                         over |-> action]
                                   ELSE fired
                  ELSE /\ UNCHANGED <<refVars, action, fired, invokedAt>>
                       /\ effect' = "none"
          ELSE /\ UNCHANGED <<lastCallRef, refVars, action, fired, invokedAt>>
               /\ effect' = "none"
    /\ UNCHANGED <<propVars, directionMemo, viewportAttached, now, viewport,
                   gateVars, original>>

\* onHeadThrottled / onTailThrottled runs.
onIntersect(edge) ==
    /\ LET r == useThrottle(lastCallRef[GateOf(edge)], throttleDelay, now,
                            Undefined)
       IN /\ lastCallRef' = [lastCallRef EXCEPT ![GateOf(edge)] = r.lastCallRef]
          /\ IF r.invoked /\ hasMore(edge)
             THEN /\ saveScrollStates(edge)
                  /\ effect' = Callback(edge)
                  /\ invokedAt' = [invokedAt EXCEPT ![edge] = now]
                  /\ fired' = IF action' # action
                              THEN [edge |-> edge, viewport |-> viewport,
                                    over |-> action]
                              ELSE fired
             ELSE /\ UNCHANGED <<refVars, action, fired, invokedAt>>
                  /\ effect' = "none"
    /\ UNCHANGED <<propVars, directionMemo, viewportAttached, now, viewport,
                   gateVars, original>>

\* The Observer of an edge reports an intersection to its handler.
EdgeFire(edge) ==
    /\ ObserverRendered(edge)
    /\ onIntersect(edge)
    /\ UNCHANGED <<obsVars, testVars>>

\* the body of the layout effect on [children]
layoutEffect ==
    /\ IF ~viewportAttached \/ action = "none"
       THEN /\ UNCHANGED <<viewport, action>>
            /\ effect' = "none"
       ELSE /\ viewport' = RestoreScroll(directionMemo, action = "head",
                                         ExtentDiff(viewport), viewport)
            /\ effect' = IF directionMemo \in Directions THEN "write"
                         ELSE IF disableLog THEN "none" ELSE "error"
            /\ action' = "none"
    /\ UNCHANGED <<propVars, directionMemo, viewportAttached, refVars,
                   lastCallRef, now, gateVars, histVars, testVars>>

\* the layout effect with a fault: the guard on the pending action is missing
Settle_WithoutPending ==
    /\ IF ~viewportAttached
       THEN /\ UNCHANGED <<viewport, action>>
            /\ effect' = "none"
       ELSE /\ viewport' = RestoreScroll(directionMemo, action = "head",
                                         ExtentDiff(viewport), viewport)
            /\ effect' = "write"
            /\ action' = "none"
    /\ UNCHANGED <<propVars, directionMemo, viewportAttached, refVars,
                   lastCallRef, now, gateVars, histVars, obsVars, testVars>>

\* the layout effect with a fault: the pending action is not cleared
Settle_KeepsPending ==
    /\ IF ~viewportAttached \/ action = "none"
       THEN /\ UNCHANGED <<viewport, action>>
            /\ effect' = "none"
       ELSE /\ viewport' = RestoreScroll(directionMemo, action = "head",
                                         ExtentDiff(viewport), viewport)
            /\ effect' = "write"
            /\ UNCHANGED action
    /\ UNCHANGED <<propVars, directionMemo, viewportAttached, refVars,
                   lastCallRef, now, gateVars, histVars, obsVars, testVars>>

\* the layout effect with a fault: only a pending head is settled
Settle_ClearsHeadOnly ==
    /\ IF ~viewportAttached \/ action # "head"
       THEN /\ UNCHANGED <<viewport, action>>
            /\ effect' = "none"
       ELSE /\ viewport' = RestoreScroll(directionMemo, action = "head",
                                         ExtentDiff(viewport), viewport)
            /\ effect' = "write"
            /\ action' = "none"
    /\ UNCHANGED <<propVars, directionMemo, viewportAttached, refVars,
                   lastCallRef, now, gateVars, histVars, obsVars, testVars>>

\* The layout effect on [children]: the content has changed and is laid out.
Settle ==
    /\ layoutEffect
    /\ UNCHANGED obsVars

\* the props of a render and the effect on
\* [direction, directionMemo, disableLog] that follows it
renderProps(dir, moreAtHead, moreAtTail) ==
    /\ viewportAttached
    /\ direction' = dir
    /\ hasMoreAtHead' = moreAtHead
    /\ hasMoreAtTail' = moreAtTail
    /\ directionMemo' = MemoizedDirection(directionMemo, dir)
    /\ effect' = IF dir # direction /\ dir # directionMemo' /\ ~disableLog
                 THEN "warn" ELSE "none"
    /\ UNCHANGED <<throttleDelay, disableLog, viewportAttached, action,
                   refVars, lastCallRef, now, viewport, gateVars, histVars,
                   testVars>>

\* A render with re-supplied props.
Render(dir, moreAtHead, moreAtTail) ==
    /\ renderProps(dir, moreAtHead, moreAtTail)
    /\ UNCHANGED obsVars

\* The component unmounts: React clears viewportRef.current; the observers
\* are disconnected later, in the deferred effect cleanup.
Detach ==
    /\ viewportAttached
    /\ viewportAttached' = FALSE
    /\ effect' = "none"
    /\ UNCHANGED <<propVars, directionMemo, action, refVars, lastCallRef, now,
                   viewport, gateVars, histVars, obsVars, testVars>>

----------------------------------------------------------------------------
(* Host *)

\* the offset of the main axis of a viewport laid out in direction dir
MainOffset(dir, vp) == IF IsColumn(dir) THEN vp.scrollTop ELSE vp.scrollLeft
MainExtent(dir, vp) == IF IsColumn(dir) THEN vp.scrollHeight ELSE vp.scrollWidth
CrossOffsetOf(dir, vp) == IF IsColumn(dir) THEN vp.scrollLeft ELSE vp.scrollTop

WithMainOffset(dir, vp, o) ==
    IF IsColumn(dir) THEN [vp EXCEPT !.scrollTop = o]
                     ELSE [vp EXCEPT !.scrollLeft = o]
WithMainExtent(dir, vp, e) ==
    IF IsColumn(dir) THEN [vp EXCEPT !.scrollHeight = e]
                     ELSE [vp EXCEPT !.scrollWidth = e]

\* Date.now() advances
Tick ==
    /\ \E s \in Steps : now + s <= MaxNow /\ now' = now + s
    /\ effect' = "none"
    /\ UNCHANGED <<propVars, listVars, viewport, gateVars, histVars, obsVars, testVars>>

\* the user scrolls the list along its main axis (flexDirection: directionMemo)
Scroll(o) ==
    /\ viewportAttached
    /\ viewport' = WithMainOffset(directionMemo, viewport, o)
    /\ effect' = "none"
    /\ UNCHANGED <<propVars, listVars, now, gateVars, histVars, obsVars, testVars>>

\* the rendered content changes its extent along the main axis
Mutate(e) ==
    /\ viewportAttached
    /\ e # MainExtent(directionMemo, viewport)
    /\ LET vp == WithMainExtent(directionMemo, viewport, e)
       IN /\ action # "none" =>
                MainOffset(directionMemo,
                           RestoreScroll(directionMemo, action = "head",
                                         ExtentDiff(vp), vp)) \in 0..MaxOffset
          /\ viewport' = vp
    /\ effect' = "none"
    /\ UNCHANGED <<propVars, listVars, now, gateVars, histVars, obsVars, testVars>>

----------------------------------------------------------------------------
(* The component in use *)

InitGate ==
    /\ gLastCallRef = 0
    /\ gDelay = DefaultDelay
    /\ gCallback = Undefined
    /\ gAttemptedAt = <<>>
    /\ gForwardedAt = <<>>
    /\ gInvoked = FALSE
    /\ gReturned = Undefined
    /\ gAfterRewrap = FALSE
    /\ gRewrapped = FALSE

\* the hook state after the first render with a direction prop of dirs
InitListWith(dirs) ==
    /\ directionMemo \in dirs
    /\ direction = directionMemo
    /\ hasMoreAtHead \in BOOLEAN
    /\ hasMoreAtTail \in BOOLEAN
    /\ throttleDelay = DefaultDelay
    /\ disableLog \in BOOLEAN
    /\ viewportAttached = TRUE
    /\ action = "none"
    /\ scrollWidthRef = 0
    /\ scrollHeightRef = 0
    /\ scrollLeftRef = 0
    /\ scrollTopRef = 0
    /\ lastCallRef = [e \in Edges |-> 0]
    /\ now = StartNow
    /\ \E e \in Extents, o \in ScrollOffsets :
          viewport = WithMainOffset(directionMemo,
                        WithMainExtent(directionMemo,
                           [scrollWidth |-> CrossExtent, scrollHeight |-> CrossExtent,
                            scrollLeft |-> CrossOffset, scrollTop |-> CrossOffset],
                           e), o)
    /\ effect = "none"
    /\ original = direction
    /\ fired = [edge |-> "none", viewport |-> viewport, over |-> "none"]
    /\ invokedAt = [e \in Edges |-> 0]

InitList == InitListWith(Directions)

\* the Observers and TestList at rest
InitObserver ==
    /\ visible = [e \in Edges |-> FALSE]
    /\ observed = [e \in Edges |-> "new"]
    /\ calm = [e \in Edges |-> "never"]

InitTestList ==
    /\ batchSize = DefaultBatchSize
    /\ idMin = <<>>
    /\ idMax = <<>>
    /\ data = <<0>>

Init == InitList /\ InitGate /\ InitObserver /\ InitTestList

Next ==
    \/ \E edge \in Edges : EdgeFire(edge)
    \/ Settle
    \/ \E dir \in DirectionProps, h \in BOOLEAN, t \in BOOLEAN : Render(dir, h, t)
    \/ Detach
    \/ Tick
    \/ \E o \in ScrollOffsets : Scroll(o)
    \/ \E e \in Extents : Mutate(e)

Spec == Init /\ [][Next]_vars

\* The list whose viewport stays mounted and whose parent answers every
\* onHead and onTail with new children: a render with a pending action is
\* followed by the layout effect on [children].
LiveInit ==
    /\ Init
    /\ directionMemo \in {"row", "column-reverse"}
    /\ hasMoreAtHead /\ hasMoreAtTail
    /\ ~disableLog

LiveNext ==
    \/ \E edge \in Edges : EdgeFire(edge)
    \/ Settle
    \/ \E h \in BOOLEAN, t \in BOOLEAN : Render(direction, h, t)
    \/ Tick
    \/ \E o \in ScrollOffsets : Scroll(o)
    \/ \E e \in Extents : Mutate(e)

SpecLive ==
    /\ LiveInit
    /\ [][LiveNext]_vars
    /\ WF_vars(Settle /\ action # "none")

----------------------------------------------------------------------------
(* Observer: the list with the IntersectionObserver of each edge *)

\* The effect of Observer on [onIntersect, viewport] after a render of the
\* list in which act is pending: onHeadThrottled and onTailThrottled are new
\* functions in every render (their callback is an inline arrow function),
\* so the effect disconnects the IntersectionObserver of each rendered
\* Observer and constructs a new one; the Observer of the pending edge is
\* not rendered.
ObserverEffect(act) == [e \in Edges |-> IF act = e THEN "none" ELSE "new"]

\* An IntersectionObserver with threshold 0 notifies its callback once after
\* observe() and whenever its target starts or stops intersecting the root.
Notifies(edge) ==
    \/ observed[edge] = "new"
    \/ observed[edge] = "intersecting" /\ ~visible[edge]
    \/ observed[edge] = "apart" /\ visible[edge]

\* The callback of the IntersectionObserver of an edge runs:
\* if (entries[0].intersectionRatio > 0) onIntersect(entries, observer).
ObserverReport(edge) ==
    /\ ObserverRendered(edge)
    /\ Notifies(edge)
    /\ IF visible[edge]
       THEN /\ onIntersect(edge)
            /\ calm' = [calm EXCEPT ![edge] = "visibleSince"]
            /\ observed' = IF action' # action
                           THEN ObserverEffect(action')
                           ELSE [observed EXCEPT ![edge] = "intersecting"]
       ELSE /\ observed' = [observed EXCEPT ![edge] = "apart"]
            /\ effect' = "none"
            /\ UNCHANGED <<propVars, listVars, now, viewport, gateVars,
                           histVars, calm>>
    /\ UNCHANGED <<visible, testVars>>

\* The content changes: the list renders with new children, its layout
\* effect runs, and the sentinel of an edge that was pending is back in the
\* content, in view or not.
ObserverSettle ==
    /\ layoutEffect
    /\ observed' = ObserverEffect(action')
    /\ \E v \in BOOLEAN :
          /\ visible' = [e \in Edges |-> IF action = e /\ action' # e
                                         THEN v ELSE visible[e]]
          /\ calm' = [e \in Edges |-> IF action = e /\ action' # e
                                      THEN "hidden" ELSE calm[e]]

\* The parent renders the list with re-supplied hasMore flags.
ObserverRender(moreAtHead, moreAtTail) ==
    /\ renderProps(direction, moreAtHead, moreAtTail)
    /\ observed' = ObserverEffect(action)
    /\ UNCHANGED <<visible, calm>>

\* The sentinel of an edge scrolls into or out of the viewport.
SentinelMove(edge) ==
    /\ viewportAttached
    /\ ObserverRendered(edge)
    /\ visible' = [visible EXCEPT ![edge] = ~visible[edge]]
    /\ calm' = [calm EXCEPT ![edge] = IF visible[edge] THEN "hidden"
                                                     ELSE calm[edge]]
    /\ effect' = "none"
    /\ UNCHANGED <<propVars, listVars, now, viewport, gateVars, histVars,
                   testVars, observed>>

ObserverInit ==
    /\ InitListWith({"row"})
    /\ ~disableLog
    /\ viewport.scrollWidth = 1000 /\ viewport.scrollLeft = 200
    /\ InitGate
    /\ visible \in [Edges -> BOOLEAN]
    /\ observed = [e \in Edges |-> "new"]
    /\ calm = [e \in Edges |-> "never"]
    /\ InitTestList

ObserverNext ==
    \/ \E edge \in Edges : ObserverReport(edge)
    \/ ObserverSettle
    \/ \E h \in BOOLEAN, t \in BOOLEAN : ObserverRender(h, t)
    \/ \E edge \in Edges : SentinelMove(edge)
    \/ Tick

SpecObserver == ObserverInit /\ [][ObserverNext]_vars

----------------------------------------------------------------------------
(* TestList: the list fed by the demonstration component *)

\* An optional number prop is <<>> when the caller leaves it out and <<n>>
\* when the caller passes n.
Given(p) == p # <<>>
NumberOf(p) == p[1]

\* an optional number prop in a condition: undefined and 0 are falsy
Truthy(p) == Given(p) /\ NumberOf(p) # 0

Maximum(a, b) == IF a >= b THEN a ELSE b
Minimum(a, b) == IF a <= b THEN a ELSE b

\* min and max: data.at(0)?.id ?? 0 and data.at(-1)?.id ?? 0
minId(d) == IF Len(d) = 0 THEN 0 ELSE d[1]
maxId(d) == IF Len(d) = 0 THEN 0 ELSE d[Len(d)]

\* count in unshiftData and pushData
unshiftCount(d) ==
    IF Truthy(idMin) THEN Maximum(Minimum(minId(d) - NumberOf(idMin), 0), batchSize)
                     ELSE batchSize
pushCount(d) ==
    IF Truthy(idMax) THEN Maximum(Minimum(maxId(d) - NumberOf(idMax), 0), batchSize)
                     ELSE batchSize

\* unshiftData: count new items with ids min - count + k before the data
unshiftData(d) ==
    LET count == unshiftCount(d)
    IN IF count = 0 THEN d
       ELSE [k \in 1..count |-> minId(d) - count + (k - 1)] \o d

\* pushData: count new items with ids max + 1 + k after the data
pushData(d) ==
    LET count == pushCount(d)
    IN IF count = 0 THEN d
       ELSE d \o [k \in 1..count |-> maxId(d) + 1 + (k - 1)]

\* the hasMoreAtHead and hasMoreAtTail props TestList renders the list with
TestHasMoreAtHead(d) == IF Truthy(idMax) THEN maxId(d) < NumberOf(idMax) ELSE TRUE
TestHasMoreAtTail(d) == IF Truthy(idMin) THEN minId(d) < NumberOf(idMin) ELSE TRUE

\* The Observer of an edge reports its sentinel in view: the throttled
\* handler runs, and onHead = unshiftData or onTail = pushData with it.
TestFire(edge) ==
    /\ ObserverRendered(edge)
    /\ Len(data) + batchSize <= MaxItems
    /\ onIntersect(edge)
    /\ data' = IF effect' # Callback(edge) THEN data
               ELSE IF edge = "head" THEN unshiftData(data)
               ELSE pushData(data)
    /\ UNCHANGED <<batchSize, idMin, idMax, obsVars>>

\* TestList renders after setData: the list gets its hasMore flags and its
\* children, the content is laid out, and the layout effect on [children]
\* of the list runs.
TestRender ==
    /\ hasMoreAtHead' = TestHasMoreAtHead(data)
    /\ hasMoreAtTail' = TestHasMoreAtTail(data)
    /\ LET laid == WithMainExtent(directionMemo, viewport,
                                  ItemMainSize * Len(data))
       IN IF action = "none"
          THEN /\ viewport' = laid
               /\ effect' = "none"
               /\ UNCHANGED action
          ELSE /\ viewport' = RestoreScroll(directionMemo, action = "head",
                                            ExtentDiff(laid), laid)
               /\ effect' = "write"
               /\ action' = "none"
    /\ UNCHANGED <<direction, throttleDelay, disableLog, directionMemo,
                   viewportAttached, refVars, lastCallRef, now, gateVars,
                   histVars, obsVars, testVars>>

\* TestList after its first render with the props batchSize, idMin, idMax
TestInit ==
    /\ batchSize \in BatchSizes
    /\ idMin \in {<<>>} \cup {<<n>> : n \in IdMins}
    /\ idMax \in {<<>>} \cup {<<n>> : n \in IdMaxs}
    /\ data = <<0>>
    /\ direction = "row"
    /\ directionMemo = direction
    /\ hasMoreAtHead = TestHasMoreAtHead(data)
    /\ hasMoreAtTail = TestHasMoreAtTail(data)
    /\ throttleDelay = DefaultDelay
    /\ disableLog = FALSE
    /\ viewportAttached = TRUE
    /\ action = "none"
    /\ scrollWidthRef = 0
    /\ scrollHeightRef = 0
    /\ scrollLeftRef = 0
    /\ scrollTopRef = 0
    /\ lastCallRef = [e \in Edges |-> 0]
    /\ now = StartNow
    /\ viewport = [scrollWidth |-> ItemMainSize * Len(data),
                   scrollHeight |-> CrossExtent,
                   scrollLeft |-> 0, scrollTop |-> CrossOffset]
    /\ effect = "none"
    /\ original = direction
    /\ fired = [edge |-> "none", viewport |-> viewport, over |-> "none"]
    /\ invokedAt = [e \in Edges |-> 0]
    /\ InitGate
    /\ InitObserver

TestNext ==
    \/ \E edge \in Edges : TestFire(edge)
    \/ TestRender
    \/ Tick

SpecTestList == TestInit /\ [][TestNext]_vars

----------------------------------------------------------------------------
(* The component constructed by an untyped caller *)

InitUntyped ==
    InitListWith(Unrecognized) /\ InitGate /\ InitObserver /\ InitTestList

SpecUntyped == InitUntyped /\ [][Next]_vars

----------------------------------------------------------------------------
(* The hook in use on its own *)

GateInit ==
    /\ InitList
    /\ directionMemo = "row"
    /\ hasMoreAtHead /\ hasMoreAtTail /\ ~disableLog
    /\ viewport.scrollWidth = 1000 /\ viewport.scrollLeft = 200
    /\ gLastCallRef = 0
    /\ gDelay \in Delays
    /\ gCallback \in CallbackResults
    /\ gAttemptedAt = <<>>
    /\ gForwardedAt = <<>>
    /\ gInvoked = FALSE
    /\ gReturned = Undefined
    /\ gAfterRewrap = FALSE
    /\ gRewrapped = FALSE
    /\ InitObserver /\ InitTestList

GateNext ==
    \/ GateAttempt
    \/ \E c \in CallbackResults, d \in Delays : GateRewrap(c, d)
    \/ GateTick

SpecGate == GateInit /\ [][GateNext]_vars

----------------------------------------------------------------------------
(* Properties of the throttle gate, checked under SpecGate *)

Last(seq) == seq[Len(seq)]

\* the step is an invocation of the memoized function
IsAttempt == Len(gAttemptedAt') = Len(gAttemptedAt) + 1

\* C1: an attempt at time t is forwarded to the callback if and only if it
\* is the first attempt or t minus the time of the last forwarded attempt is
\* at least the cooldown.
C1_ForwardedIffCooldownElapsed ==
    [][IsAttempt =>
         (gInvoked' <=> \/ gAttemptedAt = <<>>
                        \/ /\ gForwardedAt # <<>>
                           /\ now - Last(gForwardedAt) >= gDelay)]_vars

\* C7 as stated: the value an attempt returns tells whether the callback was
\* called: a suppressed attempt, and only a suppressed attempt, returns the
\* result of suppression.
C7_ResultDeterminesInvocation ==
    gAttemptedAt # <<>> => ((gReturned = Undefined) <=> ~gInvoked)

\* C7 amended: a suppressed attempt returns undefined and a forwarded attempt
\* returns what the callback returns, so the value returned tells the two
\* apart exactly when the callback returns something other than undefined.
C7_ReturnsCallbackResultOrUndefined ==
    (gAttemptedAt # <<>> /\ ~gRewrapped) =>
        /\ gReturned = (IF gInvoked THEN gCallback ELSE Undefined)
        /\ gCallback # Undefined => ((gReturned = Undefined) <=> ~gInvoked)

\* a callback that returns a value was wrapped, called once and then suppressed
C7_Witness ==
    /\ ~gRewrapped /\ gCallback = "result"
    /\ Len(gAttemptedAt) = 2 /\ Len(gForwardedAt) = 1
    /\ ~gInvoked /\ gReturned = Undefined

\* C8: a render of the hook with another callback or delay leaves the
\* last-success timestamp as it is, and the attempt that follows is forwarded
\* if and only if the time since the last forwarded attempt is at least the
\* new cooldown.
C8_RewrapKeepsTimestamp ==
    [][/\ (gRewrapped' /\ <<gCallback', gDelay'>> # <<gCallback, gDelay>>) =>
            gLastCallRef' = gLastCallRef
       /\ (IsAttempt /\ gRewrapped /\ gForwardedAt # <<>>) =>
            (gInvoked' <=> now - Last(gForwardedAt) >= gDelay)]_vars

\* an attempt made after a render with new arguments was suppressed, at a
\* time when an earlier attempt had been forwarded
C8_Witness ==
    /\ gAfterRewrap /\ ~gRewrapped
    /\ Len(gForwardedAt) = 1 /\ Len(gAttemptedAt) = 2 /\ ~gInvoked
    /\ gDelay = DefaultDelay

----------------------------------------------------------------------------
(* Properties of the list, checked under Spec *)

\* row and column lay the items out from the start of the axis
IsForward(dir) == dir \in {"row", "column"}

\* the edge at which new content moves the content already shown
IsGrowingSide(dir, edge) ==
    \/ IsForward(dir) /\ edge = "head"
    \/ ~IsForward(dir) /\ edge = "tail"

\* the step is a settlement that runs with a pending edge on a live viewport
IsPendingSettle == Settle /\ viewportAttached /\ action # "none"

\* C2: a settlement of the growing side (head of row and column, tail of
\* row-reverse and column-reverse) sets the main-axis offset to the offset
\* recorded at the edge-fire plus the growth of the extent since then.
C2_GrowingSideOffset ==
    [][(IsPendingSettle /\ IsGrowingSide(original, action)) =>
         MainOffset(original, viewport') =
            MainOffset(original, fired.viewport)
            + (MainExtent(original, viewport)
               - MainExtent(original, fired.viewport))]_vars

\* the head of a row fired at offset 200 and extent 1000, the extent grew to
\* 1400 and the settlement set the offset to 600
C2_Witness ==
    /\ effect = "write" /\ original = "row" /\ fired.edge = "head"
    /\ fired.viewport.scrollLeft = 200 /\ fired.viewport.scrollWidth = 1000
    /\ viewport.scrollWidth = 1400 /\ viewport.scrollLeft = 600

\* C3 as stated: a settlement of the other side (tail of row and column, head
\* of row-reverse and column-reverse) leaves the main-axis offset as it was
\* immediately before the settlement.
C3_OtherSideOffsetUnchanged ==
    [][(IsPendingSettle /\ ~IsGrowingSide(original, action)) =>
         MainOffset(original, viewport') = MainOffset(original, viewport)]_vars

\* C3 amended: a settlement of the other side sets the main-axis offset to
\* the offset recorded at the edge-fire, whatever the extent delta; the
\* offset is as it was before the settlement when the viewport was not
\* scrolled since the edge-fire.
C3_OtherSideOffsetRestored ==
    [][(IsPendingSettle /\ ~IsGrowingSide(original, action)) =>
         /\ MainOffset(original, viewport') = MainOffset(original, fired.viewport)
         /\ MainOffset(original, viewport) = MainOffset(original, fired.viewport)
              => MainOffset(original, viewport') = MainOffset(original, viewport)]_vars

\* the tail of a column fired at one extent and was settled at another, and
\* the offset is the one recorded
C3_Witness ==
    /\ effect = "write" /\ original = "column" /\ fired.edge = "tail"
    /\ viewport.scrollHeight # fired.viewport.scrollHeight
    /\ viewport.scrollTop = fired.viewport.scrollTop

\* the hasMore flag of an edge
FlagOf(edge) == IF edge = "head" THEN hasMoreAtHead ELSE hasMoreAtTail

\* the step is an action of the list other than a settlement
IsOtherListStep ==
    \/ \E e \in Edges : EdgeFire(e)
    \/ \E d \in Directions, h \in BOOLEAN, t \in BOOLEAN : Render(d, h, t)
    \/ Detach

\* C4: the list writes the scroll offset only in a settlement with a pending
\* edge, and once (the main-axis offset, nothing else of the viewport); a
\* settlement with no pending edge changes nothing; edge-fires, forwarded or
\* suppressed, renders with new props and the unmount leave the viewport as
\* it is.
C4_OffsetWrittenOnlyBySettlement ==
    [][/\ IsPendingSettle =>
            /\ effect' = "write"
            /\ viewport' = WithMainOffset(original, viewport,
                                          MainOffset(original, viewport'))
       /\ (Settle /\ ~IsPendingSettle) =>
            /\ UNCHANGED <<viewport, propVars, listVars, histVars>>
            /\ effect' = "none"
       /\ IsOtherListStep => (viewport' = viewport /\ effect' # "write")
       /\ effect' = "write" => IsPendingSettle]_vars

\* a settlement has just written the offset of a row-reverse list
C4_Witness ==
    /\ effect = "write" /\ original = "row-reverse" /\ action = "none"
    /\ viewport.scrollLeft \in {200, 600}

\* C5: the pending action is none, head or tail; a settlement that runs with
\* a pending edge leaves it none; and it leaves none only by an edge-fire
\* whose gate has cooled down and whose hasMore flag is true.
C5_AtMostOnePending ==
    [][/\ action \in {"none", "head", "tail"}
       /\ action' \in {"none", "head", "tail"}
       /\ IsPendingSettle => action' = "none"
       /\ (action = "none" /\ action' # "none") =>
            \E e \in Edges :
               /\ action' = e
               /\ FlagOf(e)
               /\ now - lastCallRef[e] >= throttleDelay
               /\ lastCallRef'[e] = now]_vars

\* a pending tail has just been settled and nothing is pending
C5_Witness ==
    /\ effect = "write" /\ fired.edge = "tail" /\ action = "none"
    /\ lastCallRef["tail"] >= StartNow

\* C6: an edge-fire at an edge whose hasMore flag is false enters no pending
\* action, records no metrics, invokes no callback and leaves the viewport
\* as it is; an edge becomes pending only by a step taken with its flag true
\* and its gate cooled down.
C6_NoMoreNoPending ==
    [][\A e \in Edges :
         /\ (EdgeFire(e) /\ ~FlagOf(e)) =>
              /\ UNCHANGED <<action, refVars, viewport, fired>>
              /\ effect' \notin {"onHead", "onTail"}
         /\ (action # e /\ action' = e) =>
              (FlagOf(e) /\ now - lastCallRef[e] >= throttleDelay)]_vars

\* the head gate has let an edge-fire through while hasMoreAtHead was false:
\* nothing is pending and nothing was ever recorded
C6_Witness ==
    /\ viewportAttached /\ ~hasMoreAtHead /\ hasMoreAtTail
    /\ lastCallRef["head"] = now /\ lastCallRef["tail"] = 0
    /\ direction = original
    /\ action = "none" /\ fired.edge = "none"
    /\ scrollWidthRef = 0 /\ scrollHeightRef = 0

\* C9: the direction memoized at construction is kept when the direction
\* prop changes: every recording and every settlement uses the main axis and
\* the sign of the original direction, and a change of the prop to a value
\* other than the original logs a warning unless logging is disabled.
C9_OrientationFixed ==
    [][/\ directionMemo' = original
       /\ IsPendingSettle =>
            /\ MainOffset(original, viewport') =
                  MainOffset(original, fired.viewport)
                  + (IF IsGrowingSide(original, action)
                     THEN MainExtent(original, viewport)
                          - MainExtent(original, fired.viewport)
                     ELSE 0)
            /\ CrossOffsetOf(original, viewport') = CrossOffsetOf(original, viewport)
       /\ (action' # action /\ action' # "none") =>
            IF IsColumn(original)
            THEN /\ scrollHeightRef' = viewport.scrollHeight
                 /\ scrollTopRef' = viewport.scrollTop
                 /\ UNCHANGED <<scrollWidthRef, scrollLeftRef>>
            ELSE /\ scrollWidthRef' = viewport.scrollWidth
                 /\ scrollLeftRef' = viewport.scrollLeft
                 /\ UNCHANGED <<scrollHeightRef, scrollTopRef>>
       /\ (direction' # direction /\ direction' # original) =>
            (effect' = "warn" <=> ~disableLog)]_vars

\* the direction prop names the other axis than the original direction, and a
\* settlement has just corrected the offset of the original main axis
C9_Witness ==
    /\ direction # original /\ IsColumn(direction) # IsColumn(original)
    /\ effect = "write" /\ IsGrowingSide(original, fired.edge)
    /\ MainExtent(original, viewport) # MainExtent(original, fired.viewport)
    /\ MainOffset(original, viewport) # MainOffset(original, fired.viewport)

\* C10: while the viewport handle is absent, an edge-fire or a settlement
\* enters no pending action, records no metrics, invokes no callback and
\* writes no offset.
C10_DetachedIgnored ==
    [][(~viewportAttached /\ ((\E e \in Edges : EdgeFire(e)) \/ Settle)) =>
         /\ UNCHANGED <<action, refVars, viewport>>
         /\ effect' = "none"]_vars

----------------------------------------------------------------------------
(* Properties of the list constructed with an unrecognized direction,
   checked under SpecUntyped *)

\* C11: a settlement with a pending edge and a direction outside the four
\* recognized values leaves the viewport as it is, logs an error unless
\* logging is disabled, completes, and clears the pending edge.
C11_UnrecognizedSkipsCorrection ==
    [][(IsPendingSettle /\ directionMemo \notin Directions) =>
         /\ viewport' = viewport
         /\ effect' = (IF disableLog THEN "none" ELSE "error")
         /\ action' = "none"]_vars

\* a pending edge of a list constructed with "inherit" was settled after the
\* extent had changed and the viewport had been scrolled: the error is
\* logged, nothing is pending and the offset is not the recorded one
C11_Witness ==
    /\ original = "inherit" /\ effect = "error" /\ action = "none"
    /\ fired.edge = "head"
    /\ viewport.scrollWidth # fired.viewport.scrollWidth
    /\ viewport.scrollLeft # fired.viewport.scrollLeft

\* the edge that is not e
OtherEdge(e) == IF e = "head" THEN "tail" ELSE "head"

\* the gate of an edge has cooled down
Cooled(e) == now - lastCallRef[e] >= throttleDelay

\* C14: while an edge is pending its Observer is not rendered and the
\* Observer of the other edge is; no step taken from a state with the edge
\* pending is an edge-fire of that edge: its gate keeps its timestamp and
\* its callback is not invoked.
C14_PendingSentinelNotRendered ==
    [][\A e \in Edges : action = e =>
          /\ ~ObserverRendered(e)
          /\ ObserverRendered(OtherEdge(e))
          /\ ~EdgeFire(e)
          /\ lastCallRef'[e] = lastCallRef[e]
          /\ invokedAt'[e] = invokedAt[e]
          /\ effect' # Callback(e)]_vars

\* the head is pending, its flag is true and its gate has cooled down: a
\* head edge-fire would be forwarded if there were any
C14_Witness ==
    /\ action = "head" /\ viewportAttached /\ hasMoreAtHead
    /\ Cooled("head") /\ invokedAt["head"] >= StartNow
    /\ now > invokedAt["head"]

\* C15 as stated: while an action is pending the sentinels of both edges
\* can dispatch an edge-fire.
C15_EitherEdgeDispatches ==
    action # "none" => \A e \in Edges : ENABLED EdgeFire(e)

\* C15 amended: without a settlement the pending action stays pending (an
\* edge-fire may replace the edge, nothing clears it) and the list writes no
\* offset; the Observer of the other edge stays rendered and its edge-fire
\* invokes its callback exactly when its gate has cooled down and its
\* hasMore flag is true; the Observer of the pending edge is not rendered.
C15_PendingBlocksOnlyItsEdge ==
    [][action # "none" =>
         /\ ~Settle => (action' # "none" /\ effect' # "write")
         /\ ~ObserverRendered(action)
         /\ ObserverRendered(OtherEdge(action))
         /\ ENABLED EdgeFire(OtherEdge(action))
         /\ EdgeFire(OtherEdge(action)) =>
              (effect' = Callback(OtherEdge(action))
                 <=> (Cooled(OtherEdge(action)) /\ FlagOf(OtherEdge(action))))]_vars

\* the head has been pending for a cooldown or longer, unsettled, and the
\* tail has just been through its gate with its flag false
C15_Witness ==
    /\ action = "head" /\ viewportAttached
    /\ invokedAt["head"] >= StartNow
    /\ now >= invokedAt["head"] + throttleDelay
    /\ lastCallRef["tail"] = now /\ ~hasMoreAtTail /\ effect = "none"

\* C16: an edge-fire that is forwarded on a live viewport while the other
\* edge is pending records the extent and the offset the viewport has then
\* and makes its own edge the pending one; the settlement that follows is
\* one write, computed from that recording and that edge.
C16_LatestFireWins ==
    [][/\ \A e \in Edges :
            (EdgeFire(e) /\ effect' = Callback(e) /\ viewportAttached
               /\ action # "none") =>
               /\ action' = e
               /\ fired'.edge = e /\ fired'.over = action
               /\ IF IsColumn(original)
                  THEN /\ scrollHeightRef' = viewport.scrollHeight
                       /\ scrollTopRef' = viewport.scrollTop
                  ELSE /\ scrollWidthRef' = viewport.scrollWidth
                       /\ scrollLeftRef' = viewport.scrollLeft
       /\ IsPendingSettle =>
            /\ fired.edge = action
            /\ action' = "none"
            /\ viewport' = WithMainOffset(original, viewport,
                  MainOffset(original, fired.viewport)
                  + (IF IsGrowingSide(original, fired.edge)
                     THEN MainExtent(original, viewport)
                          - MainExtent(original, fired.viewport)
                     ELSE 0))]_vars

\* the tail of a row fired over a pending head after the viewport had been
\* scrolled, and the settlement wrote the offset of the tail's recording
C16_Witness ==
    /\ effect = "write" /\ action = "none" /\ original = "row"
    /\ fired.edge = "tail" /\ fired.over = "head"
    /\ fired.viewport.scrollLeft = 600 /\ scrollLeftRef = 600
    /\ viewport.scrollLeft = 600

\* C17: after every step that leaves an action pending, the recorded extent
\* and offset of the main axis are those the viewport had at the latest
\* forwarded edge-fire and nothing is recorded of the cross axis; a
\* settlement with a pending edge computes the delta on the main axis and
\* leaves the cross offset and both extents as they are.
C17_RecordedOnMainAxis ==
    [][/\ (action' # "none" /\ viewportAttached) =>
            IF IsColumn(original)
            THEN /\ scrollHeightRef' = fired'.viewport.scrollHeight
                 /\ scrollTopRef' = fired'.viewport.scrollTop
                 /\ scrollWidthRef' = 0 /\ scrollLeftRef' = 0
            ELSE /\ scrollWidthRef' = fired'.viewport.scrollWidth
                 /\ scrollLeftRef' = fired'.viewport.scrollLeft
                 /\ scrollHeightRef' = 0 /\ scrollTopRef' = 0
       /\ IsPendingSettle =>
            /\ ExtentDiff(viewport) = MainExtent(original, viewport)
                                      - MainExtent(original, fired.viewport)
            /\ CrossOffsetOf(original, viewport')
                  = CrossOffsetOf(original, viewport)
            /\ viewport'.scrollWidth = viewport.scrollWidth
            /\ viewport'.scrollHeight = viewport.scrollHeight]_vars

\* the tail of a column-reverse list is pending with the vertical extent
\* and offset recorded and nothing recorded of the horizontal axis
C17_Witness ==
    /\ original = "column-reverse" /\ action = "tail" /\ viewportAttached
    /\ scrollHeightRef = 1400 /\ scrollTopRef = 600
    /\ scrollWidthRef = 0 /\ scrollLeftRef = 0
    /\ viewport.scrollLeft = CrossOffset

\* C19: an edge-fire whose gate has cooled down sets the timestamp of the
\* gate to the clock reading whether the hasMore flag is true or false; an
\* edge-fire within the cooldown is suppressed, whatever the flag: no
\* pending action is entered, nothing is recorded, no callback is invoked.
C19_FlagBehindGate ==
    [][\A e \in Edges : EdgeFire(e) =>
          /\ Cooled(e) => lastCallRef'[e] = now
          /\ (Cooled(e) /\ ~FlagOf(e)) =>
                (action' = action /\ effect' # Callback(e))
          /\ ~Cooled(e) =>
                /\ UNCHANGED <<lastCallRef, action, refVars, fired, invokedAt>>
                /\ effect' # Callback(e)]_vars

\* the head went through its gate at the start with its flag false, the flag
\* has turned true since and the cooldown is not over
C19_Witness ==
    /\ hasMoreAtHead /\ viewportAttached
    /\ action = "none" /\ fired.edge = "none"
    /\ lastCallRef["head"] = StartNow /\ now > StartNow /\ ~Cooled("head")

\* C20: an edge-fire leaves the timestamp of the other edge's gate as it
\* is and is forwarded exactly when its own gate has cooled down; a callback
\* is invoked no sooner than one cooldown after its previous invocation.
C20_GatesIndependent ==
    [][\A e \in Edges : EdgeFire(e) =>
          /\ lastCallRef'[OtherEdge(e)] = lastCallRef[OtherEdge(e)]
          /\ lastCallRef'[e] = (IF Cooled(e) THEN now ELSE lastCallRef[e])
          /\ (Cooled(e) /\ FlagOf(e)) => effect' = Callback(e)
          /\ effect' = Callback(e) =>
                /\ now - invokedAt[e] >= throttleDelay
                /\ invokedAt'[e] = now
                /\ invokedAt'[OtherEdge(e)] = invokedAt[OtherEdge(e)]]_vars

\* onHead and onTail have both been invoked at the same clock reading
C20_Witness ==
    /\ invokedAt["head"] = now /\ invokedAt["tail"] = now
    /\ lastCallRef["head"] = now /\ lastCallRef["tail"] = now

----------------------------------------------------------------------------
(* Liveness of the list, checked under SpecLive *)

\* C18: with the viewport mounted and every pending action settled in the
\* end, a pending edge leads to the state with no pending action in which
\* the Observer of that edge is rendered again.
C18_PendingLeadsToIdle ==
    \A e \in Edges :
       (action = e) ~> (action = "none" /\ ObserverRendered(e))

\* both edges have been pending in turn and the last one has been settled
C18_Witness ==
    /\ action = "none" /\ effect = "write"
    /\ fired.edge = "head" /\ fired.over = "tail"
    /\ ObserverRendered("head") /\ ObserverRendered("tail")

----------------------------------------------------------------------------
(* Properties of the Observer, checked under SpecObserver *)

\* C12: the detector forwards a notification to its handler only when the
\* sentinel is in view, and never twice without the sentinel having been out
\* of view in between, whatever renders of the list happen meanwhile.
C12_EdgeTriggered ==
    [][\A e \in Edges :
         (ObserverReport(e) /\ calm'[e] = "visibleSince") =>
            (visible[e] /\ calm[e] # "visibleSince")]_vars

----------------------------------------------------------------------------
(* Properties of TestList, checked under SpecTestList *)

\* C13: when idMin (idMax) is provided, no item of the list has an id below
\* idMin (above idMax), whatever head and tail loads have happened.
C13_IdsWithinLimits ==
    \A i \in 1..Len(data) :
       /\ Given(idMin) => data[i] >= NumberOf(idMin)
       /\ Given(idMax) => data[i] <= NumberOf(idMax)

TypeOK ==
    /\ action \in {"none", "head", "tail"}
    /\ now \in StartNow..MaxNow

====
